---- MODULE Spec2Model ----
(***************************************************************************)
(* Model of the embedded admin application's route handlers:               *)
(*   - the order fulfillment classifier (getOrderFulfillmentStatus),       *)
(*   - the orders-overview loader (fetch, permission handling, counting,   *)
(*     percentages),                                                       *)
(*   - the profile form action (validation and persistence),               *)
(*   - the profile loader, the QR-code page's loader and creation action,  *)
(*   - the QR-code page's text truncation helper.                          *)
(* Each handler keeps a log of its authentication and outbound calls.      *)
(* Percentages are carried in hundredths of a percent (30.00 is 3000); the *)
(* double-precision arithmetic of the source is reproduced bit-exactly.    *)
(***************************************************************************)
EXTENDS Integers, Sequences, FiniteSets, TLC

\* ---------------------------------------------------------------- bounds
MaxFulfillments == 2      \* fulfillments per order given to the classifier
MaxErrors == 2            \* entries of a GraphQL error list
MaxOrders == 3            \* orders in a fetched page, full loader
MaxAggOrders == 32        \* orders in a fetched page, aggregation alone
MaxLongOrders == 160      \* orders in a fetched page of two kinds of order
MaxFieldLen == 2          \* characters in a submitted form field
MaxProfiles == 2          \* records in the profile store
MaxTextLen == 3           \* characters of a table-cell text
MaxTruncLength == 5       \* explicit maximum lengths given to truncate
MaxVariants == 2          \* variants listed in a product-creation response

\* ------------------------------------------------------------- variables
VARIABLES
    order,          \* classifier harness: the order handed to the classifier
    classified,     \* classifier harness: what the classifier returned
    pc,             \* orders loader: position in the handler
    json,           \* orders loader: the decoded response
    thrown,         \* orders loader: the error the fetch threw
    statusCounts,   \* orders loader: the four counters
    processed,      \* orders loader: orders the counting loop has visited
    result,         \* orders loader: what the handler returned or raised
    calls,          \* orders loader: authentication and outbound calls so far
    ppc,            \* profile action: position in the handler
    form,           \* profile action: the submitted form data
    profiles,       \* the profile store, in order of creation
    response,       \* profile route: what the handler returned or raised
    pcalls,         \* profile route: authentication and store calls so far
    tText,          \* truncate harness: the text argument
    tLength,        \* truncate harness: the length argument, if given
    tResult,        \* truncate harness: what truncate returned
    qpc,            \* QR-code route: position in the handler
    qjson,          \* QR-code action: the decoded product-creation response
    qpicked,        \* QR-code action: the product and variant ids read from it
    qresult,        \* QR-code route: what the handler returned or raised
    qcalls          \* QR-code route: authentication and outbound calls so far

classifierVars == <<order, classified>>
loaderVars == <<pc, json, thrown, statusCounts, processed, result, calls>>
profileVars == <<ppc, form, profiles, response, pcalls>>
truncateVars == <<tText, tLength, tResult>>
qrVars == <<qpc, qjson, qpicked, qresult, qcalls>>
vars == <<order, classified, pc, json, thrown, statusCounts, processed, result, calls,
          ppc, form, profiles, response, pcalls, tText, tLength, tResult,
          qpc, qjson, qpicked, qresult, qcalls>>

\* JavaScript null / undefined for an optional field
Null == "null"

\* ============================================================ classifier
\* values a fulfillment's status / displayStatus may carry
StatusValues == {Null, "DELIVERED", "FULFILLED", "IN_TRANSIT", "SUCCESS"}
Labels == {"DELIVERED", "NOT_DELIVERED", "FULFILLED", "IN_TRANSIT"}

FulfillmentSet == [displayStatus : StatusValues, status : StatusValues]

RECURSIVE SeqsUpTo(_, _)
SeqsUpTo(S, n) ==
    IF n = 0 THEN {<<>>}
    ELSE LET shorter == SeqsUpTo(S, n - 1)
         IN  shorter \cup {Append(s, x) : s \in {t \in shorter : Len(t) = n - 1}, x \in S}

\* an order as the query returns it; fulfillments may be absent
AbsentFulfillments == [hasFulfillments |-> FALSE, fulfillments |-> <<>>]
OrderSet ==
    [hasFulfillments : {TRUE}, fulfillments : SeqsUpTo(FulfillmentSet, MaxFulfillments)]
        \cup {AbsentFulfillments}

\* a || b on optional strings
OrElse(a, b) == IF a # Null THEN a ELSE b

\* order.fulfillments || []
FulfillmentsOf(o) == IF o.hasFulfillments THEN o.fulfillments ELSE <<>>

\* the for-loop of lines 22-34; Null when it falls through
RECURSIVE PrimaryScan(_, _)
PrimaryScan(fs, i) ==
    IF i > Len(fs) THEN Null
    ELSE LET displayStatus == OrElse(fs[i].displayStatus, fs[i].status)
         IN  IF displayStatus = "DELIVERED" THEN "DELIVERED"
             ELSE IF displayStatus = "FULFILLED" THEN "FULFILLED"
             ELSE IF displayStatus = "IN_TRANSIT" THEN "IN_TRANSIT"
             ELSE PrimaryScan(fs, i + 1)

\* fulfillments.some(...) of lines 37-39
hasFulfilled(fs) ==
    \E i \in 1..Len(fs) : OrElse(fs[i].displayStatus, fs[i].status) = "FULFILLED"

\* mutant: DELIVERED anywhere in the list takes priority over list order
ClassifyGlobalPriority(o) ==
    LET fulfillments == FulfillmentsOf(o)
        primary == PrimaryScan(fulfillments, 1)
        anyDelivered == \E i \in 1..Len(fulfillments) :
            OrElse(fulfillments[i].displayStatus, fulfillments[i].status) = "DELIVERED"
    IN  IF Len(fulfillments) = 0 THEN [status |-> "NOT_DELIVERED", via |-> "empty"]
        ELSE IF anyDelivered THEN [status |-> "DELIVERED", via |-> "primary"]
        ELSE IF primary # Null THEN [status |-> primary, via |-> "primary"]
        ELSE IF hasFulfilled(fulfillments) THEN [status |-> "FULFILLED", via |-> "secondary"]
        ELSE [status |-> "NOT_DELIVERED", via |-> "default"]

\* mutant: the for-loop inspects only the first fulfillment
ClassifyFirstOnly(o) ==
    LET fulfillments == FulfillmentsOf(o)
        primary == PrimaryScan(SubSeq(fulfillments, 1, 1), 1)
    IN  IF Len(fulfillments) = 0 THEN [status |-> "NOT_DELIVERED", via |-> "empty"]
        ELSE IF primary # Null THEN [status |-> primary, via |-> "primary"]
        ELSE IF hasFulfilled(fulfillments) THEN [status |-> "FULFILLED", via |-> "secondary"]
        ELSE [status |-> "NOT_DELIVERED", via |-> "default"]

\* mutant: the default label is one the counters do not have
ClassifyUnfulfilledDefault(o) ==
    LET fulfillments == FulfillmentsOf(o)
        primary == PrimaryScan(fulfillments, 1)
    IN  IF Len(fulfillments) = 0 THEN [status |-> "UNFULFILLED", via |-> "empty"]
        ELSE IF primary # Null THEN [status |-> primary, via |-> "primary"]
        ELSE IF hasFulfilled(fulfillments) THEN [status |-> "FULFILLED", via |-> "secondary"]
        ELSE [status |-> "UNFULFILLED", via |-> "default"]

\* the label together with the return statement that produced it
Classify(o) ==
    LET fulfillments == FulfillmentsOf(o)
        primary == PrimaryScan(fulfillments, 1)
    IN  IF Len(fulfillments) = 0 THEN [status |-> "NOT_DELIVERED", via |-> "empty"]
        ELSE IF primary # Null THEN [status |-> primary, via |-> "primary"]
        ELSE IF hasFulfilled(fulfillments) THEN [status |-> "FULFILLED", via |-> "secondary"]
        ELSE [status |-> "NOT_DELIVERED", via |-> "default"]

getOrderFulfillmentStatus(o) == Classify(o).status

\* =========================================================== percentages
\* IEEE-754 double arithmetic of  Math.round((count / total) * 100 * 100),
\* on 53-bit significands held as three 21-bit limbs <<high, middle, low>>.
\* A double is [m |-> significand, e |-> exponent], standing for m / 2^e.
Limb == 2097152

BigZero == <<0, 0, 0>>

BigMulSmall(a, k) ==
    LET low == a[3] * k
        middle == a[2] * k + (low \div Limb)
        high == a[1] * k + (middle \div Limb)
    IN  <<high, middle % Limb, low % Limb>>

\* quotient and remainder of a big number by a small divisor
BigDivSmall(a, d) ==
    LET t2 == (a[1] % d) * Limb + a[2]
        t3 == (t2 % d) * Limb + a[3]
    IN  [q |-> <<a[1] \div d, t2 \div d, t3 \div d>>, r |-> t3 % d]

BigInc(a) ==
    IF a[3] + 1 < Limb THEN <<a[1], a[2], a[3] + 1>>
    ELSE IF a[2] + 1 < Limb THEN <<a[1], a[2] + 1, 0>>
    ELSE <<a[1] + 1, 0, 0>>

\* floor(a / 2^n) for a below 2^54 and n in 21..62, as an ordinary integer
FloorShift(a, n) ==
    IF n >= 42 THEN a[1] \div (2 ^ (n - 42))
    ELSE a[1] * (2 ^ (42 - n)) + (a[2] \div (2 ^ (n - 21)))

\* round-to-nearest, ties-to-even, of the exact value p / 2^e to 53 bits
RoundToDouble(p, e) ==
    LET k == CHOOSE n \in 0..10 :
                 /\ p[1] < 2 ^ (11 + n)
                 /\ n > 0 => p[1] >= 2 ^ (10 + n)
        d == BigDivSmall(p, 2 ^ k)
        half == 2 ^ (k - 1)
        up == k > 0 /\ (d.r > half \/ (d.r = half /\ d.q[3] % 2 = 1))
    IN  IF k = 0 THEN [m |-> p, e |-> e]
        ELSE [m |-> IF up THEN BigInc(d.q) ELSE d.q, e |-> e - k]

\* count / total  as a double (0 <= count <= total, 0 < total)
FloatDiv(count, total) ==
    IF count = 0 THEN [m |-> BigZero, e |-> 0]
    ELSE LET j == CHOOSE n \in 0..8 :
                      /\ count * (2 ^ n) >= total
                      /\ n > 0 => count * (2 ^ (n - 1)) < total
             d == BigDivSmall(<<count * (2 ^ j) * 1024, 0, 0>>, total)
             up == 2 * d.r > total \/ (2 * d.r = total /\ d.q[3] % 2 = 1)
         IN  [m |-> IF up THEN BigInc(d.q) ELSE d.q, e |-> 52 + j]

\* x * 100  as a double
FloatMul100(x) == RoundToDouble(BigMulSmall(x.m, 100), x.e)

\* mutant: truncation in place of rounding
MathTruncate(x) ==
    IF x.m = BigZero THEN 0 ELSE FloorShift(x.m, x.e)

\* Math.round(x): the nearest integer, ties towards +infinity
MathRound(x) ==
    IF x.m = BigZero THEN 0
    ELSE FloorShift(x.m, x.e) + (FloorShift(x.m, x.e - 1) % 2)

\* totalOrders > 0 ? Math.round((count / totalOrders) * 100 * 100) / 100 : 0
\* in hundredths of a percent
Percent(count, totalOrders) ==
    IF totalOrders > 0
    THEN MathRound(FloatMul100(FloatMul100(FloatDiv(count, totalOrders))))
    ELSE 0

\* the classifier harness before it is handed an order
NoOrder == [none |-> TRUE]
NotClassified == [status |-> Null, via |-> Null]

ClassifierInit ==
    /\ order = NoOrder
    /\ classified = NotClassified

\* ========================================================= orders loader
\* An error message is a sequence of words; includes() is a match of a
\* contiguous run of words (case-sensitive, as the words are compared whole).
AccessDeniedText == <<"Access", "denied">>
NotApprovedText == <<"not", "approved">>
OrderObjectText == <<"Order", "object">>

Includes(message, pattern) ==
    \E i \in 0..(Len(message) - Len(pattern)) :
        SubSeq(message, i + 1, i + Len(pattern)) = pattern

\* mutant: the "Order object" test is missing
IsPermissionErrorNoOrderObject(error) ==
    /\ error.hasMessage
    /\ \/ Includes(error.message, AccessDeniedText)
       \/ Includes(error.message, NotApprovedText)

\* mutant: only "Access denied" is tested
IsPermissionErrorOnlyAccessDenied(error) ==
    /\ error.hasMessage
    /\ Includes(error.message, AccessDeniedText)

\* error.message?.includes("Access denied") || ...("not approved") || ...("Order object")
IsPermissionError(error) ==
    /\ error.hasMessage
    /\ \/ Includes(error.message, AccessDeniedText)
       \/ Includes(error.message, NotApprovedText)
       \/ Includes(error.message, OrderObjectText)

Messages ==
    { <<"Access", "denied", "for", "Order", "object">>,
      <<"Access", "denied">>,
      <<"App", "not", "approved">>,
      <<"Invalid", "Order", "object">>,
      <<"Throttled">>,
      <<"access", "denied">> }

\* errors as the API reports them or as the fetch throws them
ErrorSet ==
    [hasMessage : {TRUE}, message : Messages]
        \cup {[hasMessage |-> FALSE, message |-> <<>>]}

\* decoded responses: an optional error list, an optional data part
JsonSet ==
    [hasErrors : {TRUE}, errors : SeqsUpTo(ErrorSet, MaxErrors), hasData : BOOLEAN]
        \cup [hasErrors : {FALSE}, errors : {<<>>}, hasData : BOOLEAN]

NoJson == [none |-> TRUE]
NotThrown == [none |-> TRUE]
NoResult == [outcome |-> "none"]

\* what authenticate.admin raises when the request is not authenticated
AuthError == [hasMessage |-> TRUE, message |-> <<"Access", "denied", "login">>]

RemediationText ==
    "This app needs to be reinstalled to access orders. Please uninstall and reinstall the app to grant order permissions."

AccessDeniedResult == [error |-> "access_denied", message |-> RemediationText]

ZeroCounts == [DELIVERED |-> 0, NOT_DELIVERED |-> 0, FULFILLED |-> 0, IN_TRANSIT |-> 0]

\* orders the counting loop is fed with
SampleOrders ==
    { AbsentFulfillments,
      [hasFulfillments |-> TRUE, fulfillments |-> <<>>],
      [hasFulfillments |-> TRUE, fulfillments |->
          << [displayStatus |-> "DELIVERED", status |-> "SUCCESS"] >>],
      [hasFulfillments |-> TRUE, fulfillments |->
          << [displayStatus |-> Null, status |-> "FULFILLED"] >>],
      [hasFulfillments |-> TRUE, fulfillments |->
          << [displayStatus |-> "IN_TRANSIT", status |-> "SUCCESS"],
             [displayStatus |-> "FULFILLED", status |-> "SUCCESS"] >>],
      [hasFulfillments |-> TRUE, fulfillments |->
          << [displayStatus |-> Null, status |-> "SUCCESS"],
             [displayStatus |-> Null, status |-> "FULFILLED"] >>],
      [hasFulfillments |-> TRUE, fulfillments |->
          << [displayStatus |-> "SUCCESS", status |-> Null] >>],
      [hasFulfillments |-> TRUE, fulfillments |->
          << [displayStatus |-> Null, status |-> Null],
             [displayStatus |-> "DELIVERED", status |-> Null] >>] }

\* a page holding only delivered orders and orders without fulfillments
TwoKinds ==
    { [hasFulfillments |-> TRUE, fulfillments |-> <<>>],
      [hasFulfillments |-> TRUE, fulfillments |->
          << [displayStatus |-> "DELIVERED", status |-> "SUCCESS"] >>] }

\* entries of a handler's call log
AuthOk == [op |-> "authenticate", ok |-> TRUE]
AuthFailed == [op |-> "authenticate", ok |-> FALSE]
OrdersQuery == [op |-> "graphql", name |-> "OrdersForStatusGraph"]

LoaderIdle ==
    /\ pc = "idle"
    /\ json = NoJson
    /\ thrown = NotThrown
    /\ statusCounts = ZeroCounts
    /\ processed = 0
    /\ result = NoResult
    /\ calls = <<>>

\* a request for the orders page arrives
Request ==
    /\ pc \in {"idle", "done", "raised"}
    /\ pc' = "auth"
    /\ json' = NoJson
    /\ thrown' = NotThrown
    /\ statusCounts' = ZeroCounts
    /\ processed' = 0
    /\ result' = NoResult
    /\ calls' = <<>>
    /\ UNCHANGED <<classifierVars, profileVars, truncateVars, qrVars>>

\* line 50: authenticate.admin(request), outside the try block
Authenticate ==
    /\ pc = "auth"
    /\ \/ /\ pc' = "fetch"
          /\ calls' = Append(calls, AuthOk)
          /\ UNCHANGED result
       \/ /\ pc' = "raised"
          /\ calls' = Append(calls, AuthFailed)
          /\ result' = [outcome |-> "throw", error |-> AuthError]
    /\ UNCHANGED <<json, thrown, statusCounts, processed>>
    /\ UNCHANGED <<classifierVars, profileVars, truncateVars, qrVars>>

\* lines 53-72: the GraphQL call and the decoding of its response
Fetch ==
    /\ pc = "fetch"
    /\ \/ \E e \in ErrorSet : thrown' = e /\ pc' = "catch" /\ UNCHANGED json
       \/ \E j \in JsonSet : json' = j /\ pc' = "check" /\ UNCHANGED thrown
    /\ calls' = Append(calls, OrdersQuery)
    /\ UNCHANGED <<statusCounts, processed, result>>
    /\ UNCHANGED <<classifierVars, profileVars, truncateVars, qrVars>>

\* json.errors.some(...) of lines 76-81
accessDenied(errors) == \E i \in 1..Len(errors) : IsPermissionError(errors[i])

\* lines 75-100: the error-list check, then the counters are set up
CheckErrors ==
    /\ pc = "check"
    /\ IF json.hasErrors /\ accessDenied(json.errors)
       THEN /\ result' = [outcome |-> "return", value |-> AccessDeniedResult]
            /\ pc' = "done"
            /\ UNCHANGED statusCounts
       ELSE /\ statusCounts' = ZeroCounts
            /\ pc' = "count"
            /\ UNCHANGED result
    /\ UNCHANGED <<json, thrown, processed, calls>>
    /\ UNCHANGED <<classifierVars, profileVars, truncateVars, qrVars>>

\* lines 103-108: one turn of the counting loop, on the next order of the
\* page (json.data absent gives the empty page)
CountOrder(page, limit) ==
    /\ pc = "count"
    /\ json.hasData
    /\ processed < limit
    /\ \E o \in page :
          LET status == getOrderFulfillmentStatus(o)
          IN  statusCounts' =
                  IF status \in DOMAIN statusCounts
                  THEN [statusCounts EXCEPT ![status] = @ + 1]
                  ELSE statusCounts
    /\ processed' = processed + 1
    /\ UNCHANGED <<pc, json, thrown, result, calls>>
    /\ UNCHANGED <<classifierVars, profileVars, truncateVars, qrVars>>

\* lines 110-158: the page is exhausted; totals, percentages, the result
Finish ==
    /\ pc = "count"
    /\ LET totalOrders == processed
           deliveredCount == statusCounts.DELIVERED
           notDeliveredCount ==
               statusCounts.NOT_DELIVERED + statusCounts.FULFILLED + statusCounts.IN_TRANSIT
           deliveredPercent == Percent(deliveredCount, totalOrders)
           notDeliveredPercent == Percent(notDeliveredCount, totalOrders)
           percentageByStatus ==
               [DELIVERED |-> Percent(statusCounts.DELIVERED, totalOrders),
                NOT_DELIVERED |-> Percent(statusCounts.NOT_DELIVERED, totalOrders),
                FULFILLED |-> Percent(statusCounts.FULFILLED, totalOrders),
                IN_TRANSIT |-> Percent(statusCounts.IN_TRANSIT, totalOrders)]
       IN  result' = [outcome |-> "return",
                      value |-> [totalOrders |-> totalOrders,
                                 statusCounts |-> statusCounts,
                                 percentages |-> [delivered |-> deliveredPercent,
                                                  notDelivered |-> notDeliveredPercent,
                                                  byStatus |-> percentageByStatus],
                                 error |-> Null]]
    /\ pc' = "done"
    /\ UNCHANGED <<json, thrown, statusCounts, processed, calls>>
    /\ UNCHANGED <<classifierVars, profileVars, truncateVars, qrVars>>

\* lines 159-172: the catch clause
Catch ==
    /\ pc = "catch"
    /\ IF IsPermissionError(thrown)
       THEN /\ result' = [outcome |-> "return", value |-> AccessDeniedResult]
            /\ pc' = "done"
       ELSE /\ result' = [outcome |-> "throw", error |-> thrown]
            /\ pc' = "raised"
    /\ UNCHANGED <<json, thrown, statusCounts, processed, calls>>
    /\ UNCHANGED <<classifierVars, profileVars, truncateVars, qrVars>>

\* ======================================================== profile action
\* Text is a sequence of characters; a form field may be missing.
NameChars == {" ", "a"}
AgeChars == {" ", "-", "1", "a"}
Digits == {"0", "1", "2", "3", "4", "5", "6", "7", "8", "9"}

MissingField == [present |-> FALSE, text |-> <<>>]
FieldSet(chars) ==
    [present : {TRUE}, text : SeqsUpTo(chars, MaxFieldLen)] \cup {MissingField}

RECURSIVE TrimStart(_)
TrimStart(s) == IF s # <<>> /\ Head(s) = " " THEN TrimStart(Tail(s)) ELSE s

RECURSIVE TrimEnd(_)
TrimEnd(s) ==
    IF s # <<>> /\ s[Len(s)] = " " THEN TrimEnd(SubSeq(s, 1, Len(s) - 1)) ELSE s

\* String.prototype.trim
Trim(s) == TrimEnd(TrimStart(s))

\* mutant: the value is taken as typed
sanitizeTextUntrimmed(value) == IF value.present THEN value.text ELSE <<>>

\* value?.toString().trim() || ""
sanitizeText(value) == IF value.present THEN Trim(value.text) ELSE <<>>

DigitValue(c) ==
    CASE c = "0" -> 0 [] c = "1" -> 1 [] c = "2" -> 2 [] c = "3" -> 3 [] c = "4" -> 4
      [] c = "5" -> 5 [] c = "6" -> 6 [] c = "7" -> 7 [] c = "8" -> 8 [] c = "9" -> 9

RECURSIVE DigitPrefix(_)
DigitPrefix(s) ==
    IF s # <<>> /\ Head(s) \in Digits THEN <<Head(s)>> \o DigitPrefix(Tail(s)) ELSE <<>>

RECURSIVE DecimalValue(_, _)
DecimalValue(digits, acc) ==
    IF digits = <<>> THEN acc
    ELSE DecimalValue(Tail(digits), 10 * acc + DigitValue(Head(digits)))

NaN == [nan |-> TRUE, value |-> 0]

\* Number.parseInt(str, 10): leading blanks, an optional sign, then the
\* longest run of digits; NaN when that run is empty
parseInt(str) ==
    LET s == TrimStart(str)
        signed == s # <<>> /\ Head(s) \in {"-", "+"}
        digits == DigitPrefix(IF signed THEN Tail(s) ELSE s)
        magnitude == DecimalValue(digits, 0)
    IN  IF digits = <<>> THEN NaN
        ELSE [nan |-> FALSE,
              value |-> IF signed /\ Head(s) = "-" THEN -magnitude ELSE magnitude]

\* mutant: a failed name stops the age from being looked at
ValidationErrorsNameFirst(name, ageValue, age) ==
    LET ageError ==
            IF ageValue = <<>> THEN "Age is required"
            ELSE IF age.nan \/ age.value < 0 THEN "Age must be a valid non-negative number"
            ELSE Null
        fields == IF name = <<>> THEN {"name"}
                  ELSE IF ageError # Null THEN {"age"} ELSE {}
    IN  [f \in fields |-> IF f = "name" THEN "Name is required" ELSE ageError]

\* lines 464-470: the errors mapping
ValidationErrors(name, ageValue, age) ==
    LET ageError ==
            IF ageValue = <<>> THEN "Age is required"
            ELSE IF age.nan \/ age.value < 0 THEN "Age must be a valid non-negative number"
            ELSE Null
        fields == (IF name = <<>> THEN {"name"} ELSE {})
                      \cup (IF ageError # Null THEN {"age"} ELSE {})
    IN  [f \in fields |-> IF f = "name" THEN "Name is required" ELSE ageError]

NoForm == [none |-> TRUE]
NoResponse == [outcome |-> "none"]

ProfileIdle ==
    /\ ppc = "idle"
    /\ form = NoForm
    /\ profiles = <<>>
    /\ response = NoResponse
    /\ pcalls = <<>>

\* a profile form is posted
ProfileSubmit ==
    /\ ppc = "idle"
    /\ Len(profiles) < MaxProfiles
    /\ \E name \in FieldSet(NameChars), age \in FieldSet(AgeChars) :
           form' = [name |-> name, age |-> age]
    /\ ppc' = "auth"
    /\ response' = NoResponse
    /\ pcalls' = <<>>
    /\ UNCHANGED profiles
    /\ UNCHANGED <<classifierVars, loaderVars, truncateVars, qrVars>>

\* line 457: authenticate.admin(request)
ProfileAuthenticate ==
    /\ ppc = "auth"
    /\ \/ /\ ppc' = "validate"
          /\ pcalls' = Append(pcalls, AuthOk)
          /\ UNCHANGED response
       \/ /\ ppc' = "raised"
          /\ pcalls' = Append(pcalls, AuthFailed)
          /\ response' = [outcome |-> "throw", error |-> AuthError]
    /\ UNCHANGED <<form, profiles>>
    /\ UNCHANGED <<classifierVars, loaderVars, truncateVars, qrVars>>

\* lines 459-486: read the form, validate, then answer 400 or create and redirect
ProfileAct ==
    /\ ppc = "validate"
    /\ LET name == sanitizeText(form.name)
           ageValue == sanitizeText(form.age)
           age == parseInt(ageValue)
           errors == ValidationErrors(name, ageValue, age)
       IN  IF DOMAIN errors # {}
           THEN /\ response' = [outcome |-> "return", status |-> 400,
                                errors |-> errors,
                                values |-> [name |-> name, age |-> ageValue]]
                /\ UNCHANGED <<profiles, pcalls>>
           ELSE /\ profiles' = Append(profiles, [name |-> name, age |-> age.value])
                /\ pcalls' = Append(pcalls, [op |-> "profile.create",
                                             data |-> [name |-> name, age |-> age.value]])
                /\ response' = [outcome |-> "return", status |-> 302,
                                location |-> "/app/profile"]
    /\ ppc' = "done"
    /\ UNCHANGED form
    /\ UNCHANGED <<classifierVars, loaderVars, truncateVars, qrVars>>

\* ============================================================== truncate
\* Text is a sequence of characters; the argument may be absent.
TextChars == {"a", "b"}
DefaultLength == 50
Ellipsis == <<".", ".", ".">>

RECURSIVE Repeat(_, _)
Repeat(c, n) == IF n = 0 THEN <<>> ELSE <<c>> \o Repeat(c, n - 1)

\* texts around the default limit, and a ten-letter one
LongTexts ==
    { <<"a", "b", "c", "d", "e", "f", "g", "h", "i", "j">>,
      Repeat("a", DefaultLength),
      Repeat("a", DefaultLength) \o <<"b">>,
      Repeat("a", DefaultLength) \o <<"b", "a", "b">> }

AbsentText == [present |-> FALSE, text |-> <<>>]
TextSet ==
    [present : {TRUE}, text : SeqsUpTo(TextChars, MaxTextLen) \cup LongTexts]
        \cup {AbsentText}

\* the second argument: left out, or a number
LengthSet ==
    [given : {TRUE}, value : 0..MaxTruncLength] \cup {[given |-> FALSE, value |-> 0]}

\* mutant: a text of exactly the maximum length is cut as well
truncateAtLimit(text, length) ==
    IF ~text.present \/ text.text = <<>> THEN <<>>
    ELSE IF Len(text.text) >= length
         THEN SubSeq(text.text, 1, length) \o Ellipsis
         ELSE text.text

\* lines 11-14: if (!text) return ""; text.length > length ? slice + "..." : text
truncate(text, length) ==
    IF ~text.present \/ text.text = <<>> THEN <<>>
    ELSE IF Len(text.text) > length
         THEN SubSeq(text.text, 1, length) \o Ellipsis
         ELSE text.text

NoText == [none |-> TRUE]
NoLength == [none |-> TRUE]
NotTruncated == [none |-> TRUE]

TruncateIdle ==
    /\ tText = NoText
    /\ tLength = NoLength
    /\ tResult = NotTruncated

\* a table cell calls truncate
TruncateCall ==
    /\ tText = NoText
    /\ tText' \in TextSet
    /\ tLength' \in LengthSet
    /\ UNCHANGED tResult
    /\ UNCHANGED <<classifierVars, loaderVars, profileVars, qrVars>>

\* the call returns; length = 50 when the argument is left out
TruncateReturn ==
    /\ tText # NoText
    /\ tResult = NotTruncated
    /\ tResult' = [text |-> truncate(tText, IF tLength.given THEN tLength.value
                                            ELSE DefaultLength)]
    /\ UNCHANGED <<tText, tLength>>
    /\ UNCHANGED <<classifierVars, loaderVars, profileVars, qrVars>>

TruncateNext == TruncateCall \/ TruncateReturn

\* ========================================================= QR-code route
ProductIds == {"gid://Product/1", "gid://Product/2"}
VariantIds == {"gid://Variant/1", "gid://Variant/2"}
Colors == {"Red", "Orange", "Yellow", "Green"}

\* reading a property of null or undefined
TypeError == [hasMessage |-> TRUE, message |-> <<"Cannot", "read", "properties">>]

\* decoded product-creation responses: no data, no product, or a product
\* with its id and the ids of its listed variants
CreateResponseSet ==
    [hasData : {TRUE}, hasProduct : {TRUE}, id : ProductIds,
     variants : SeqsUpTo(VariantIds, MaxVariants)]
        \cup { [hasData |-> TRUE, hasProduct |-> FALSE, id |-> Null, variants |-> <<>>],
               [hasData |-> FALSE, hasProduct |-> FALSE, id |-> Null, variants |-> <<>>] }

NoCreateResponse == [none |-> TRUE]
NothingPicked == [none |-> TRUE]

QRIdle ==
    /\ qpc = "idle"
    /\ qjson = NoCreateResponse
    /\ qpicked = NothingPicked
    /\ qresult = NoResult
    /\ qcalls = <<>>

\* a request for the QR-code list arrives
QRLoaderRequest ==
    /\ qpc = "idle"
    /\ qpc' = "load.auth"
    /\ UNCHANGED <<qjson, qpicked, qresult, qcalls>>
    /\ UNCHANGED <<classifierVars, loaderVars, profileVars, truncateVars>>

\* line 17: authenticate.admin(request)
QRLoaderAuthenticate ==
    /\ qpc = "load.auth"
    /\ \/ /\ qpc' = "load.get"
          /\ qcalls' = Append(qcalls, AuthOk)
          /\ UNCHANGED qresult
       \/ /\ qpc' = "raised"
          /\ qcalls' = Append(qcalls, AuthFailed)
          /\ qresult' = [outcome |-> "throw", error |-> AuthError]
    /\ UNCHANGED <<qjson, qpicked>>
    /\ UNCHANGED <<classifierVars, loaderVars, profileVars, truncateVars>>

\* lines 18-22: getQRCodes(session.shop, admin.graphql) reads the store and
\* queries the API; the loader returns what it yields or raises what it throws
QRGetQRCodes ==
    /\ qpc = "load.get"
    /\ qcalls' = Append(qcalls, [op |-> "getQRCodes"])
    /\ \/ \E n \in 0..1 :
             /\ qresult' = [outcome |-> "return", value |-> [qrCodes |-> n]]
             /\ qpc' = "done"
       \/ \E e \in ErrorSet :
             /\ qresult' = [outcome |-> "throw", error |-> e]
             /\ qpc' = "raised"
    /\ UNCHANGED <<qjson, qpicked>>
    /\ UNCHANGED <<classifierVars, loaderVars, profileVars, truncateVars>>

\* the creation form is posted
QRActionRequest ==
    /\ qpc = "idle"
    /\ qpc' = "auth"
    /\ UNCHANGED <<qjson, qpicked, qresult, qcalls>>
    /\ UNCHANGED <<classifierVars, loaderVars, profileVars, truncateVars>>

\* mutant: a failed authentication is noted and the action carries on
QRAuthenticateCarriesOn ==
    /\ qpc = "auth"
    /\ \/ qcalls' = Append(qcalls, AuthOk)
       \/ qcalls' = Append(qcalls, AuthFailed)
    /\ qpc' = "create"
    /\ UNCHANGED <<qjson, qpicked, qresult>>
    /\ UNCHANGED <<classifierVars, loaderVars, profileVars, truncateVars>>

\* line 113: authenticate.admin(request)
QRAuthenticate ==
    /\ qpc = "auth"
    /\ \/ /\ qpc' = "create"
          /\ qcalls' = Append(qcalls, AuthOk)
          /\ UNCHANGED qresult
       \/ /\ qpc' = "raised"
          /\ qcalls' = Append(qcalls, AuthFailed)
          /\ qresult' = [outcome |-> "throw", error |-> AuthError]
    /\ UNCHANGED <<qjson, qpicked>>
    /\ UNCHANGED <<classifierVars, loaderVars, profileVars, truncateVars>>

\* lines 114-146: a colour is drawn and the productCreate mutation is issued
QRCreateCall ==
    /\ qpc = "create"
    /\ \E color \in Colors :
           qcalls' = Append(qcalls, [op |-> "graphql", name |-> "populateProduct",
                                     title |-> <<color, "Snowboard">>])
    /\ qpc' = "create.await"
    /\ UNCHANGED <<qjson, qpicked, qresult>>
    /\ UNCHANGED <<classifierVars, loaderVars, profileVars, truncateVars>>

\* lines 117-147: the call completes and its response is decoded, or it throws
QRCreateResponse ==
    /\ qpc = "create.await"
    /\ \/ \E r \in CreateResponseSet :
             /\ qjson' = r
             /\ qpc' = "read"
             /\ UNCHANGED qresult
       \/ \E e \in ErrorSet :
             /\ qresult' = [outcome |-> "throw", error |-> e]
             /\ qpc' = "raised"
             /\ UNCHANGED qjson
    /\ UNCHANGED <<qpicked, qcalls>>
    /\ UNCHANGED <<classifierVars, loaderVars, profileVars, truncateVars>>

\* lines 148-149: product = data.productCreate.product and
\* variantId = product.variants.edges[0].node.id
QRReadProduct ==
    /\ qpc = "read"
    /\ IF qjson.hasData /\ qjson.hasProduct /\ Len(qjson.variants) > 0
       THEN /\ qpicked' = [productId |-> qjson.id, variantId |-> qjson.variants[1]]
            /\ qpc' = "update"
            /\ UNCHANGED qresult
       ELSE /\ qresult' = [outcome |-> "throw", error |-> TypeError]
            /\ qpc' = "raised"
            /\ UNCHANGED qpicked
    /\ UNCHANGED <<qjson, qcalls>>
    /\ UNCHANGED <<classifierVars, loaderVars, profileVars, truncateVars>>

\* mutant: the last listed variant is updated
QRUpdateCallLastVariant ==
    /\ qpc = "update"
    /\ qcalls' = Append(qcalls, [op |-> "graphql",
                                 name |-> "shopifyReactRouterTemplateUpdateVariant",
                                 productId |-> qpicked.productId,
                                 variantId |-> qjson.variants[Len(qjson.variants)],
                                 price |-> "100.00"])
    /\ qpc' = "update.await"
    /\ UNCHANGED <<qjson, qpicked, qresult>>
    /\ UNCHANGED <<classifierVars, loaderVars, profileVars, truncateVars>>

\* lines 150-168: the productVariantsBulkUpdate mutation is issued
QRUpdateCall ==
    /\ qpc = "update"
    /\ qcalls' = Append(qcalls, [op |-> "graphql",
                                 name |-> "shopifyReactRouterTemplateUpdateVariant",
                                 productId |-> qpicked.productId,
                                 variantId |-> qpicked.variantId,
                                 price |-> "100.00"])
    /\ qpc' = "update.await"
    /\ UNCHANGED <<qjson, qpicked, qresult>>
    /\ UNCHANGED <<classifierVars, loaderVars, profileVars, truncateVars>>

\* lines 150-174: the call completes, its response is decoded and the result
\* is built; a response without data makes line 173 raise
QRUpdateResponse ==
    /\ qpc = "update.await"
    /\ \/ \E hasData \in BOOLEAN :
             IF hasData
             THEN /\ qresult' = [outcome |-> "return",
                                 value |-> [product |-> qpicked.productId,
                                            variant |-> <<qpicked.variantId>>]]
                  /\ qpc' = "done"
             ELSE /\ qresult' = [outcome |-> "throw", error |-> TypeError]
                  /\ qpc' = "raised"
       \/ \E e \in ErrorSet :
             /\ qresult' = [outcome |-> "throw", error |-> e]
             /\ qpc' = "raised"
    /\ UNCHANGED <<qjson, qpicked, qcalls>>
    /\ UNCHANGED <<classifierVars, loaderVars, profileVars, truncateVars>>

\* the response has been sent; the request's data is gone
QRRespond ==
    /\ qpc \in {"done", "raised"}
    /\ qpc' = "idle"
    /\ qjson' = NoCreateResponse
    /\ qpicked' = NothingPicked
    /\ qresult' = NoResult
    /\ qcalls' = <<>>
    /\ UNCHANGED <<classifierVars, loaderVars, profileVars, truncateVars>>

QRNext ==
    \/ QRLoaderRequest
    \/ QRLoaderAuthenticate
    \/ QRGetQRCodes
    \/ QRActionRequest
    \/ QRAuthenticate
    \/ QRCreateCall
    \/ QRCreateResponse
    \/ QRReadProduct
    \/ QRUpdateCall
    \/ QRUpdateResponse
    \/ QRRespond

\* ======================================================== profile loader
RECURSIVE Reverse(_)
Reverse(q) == IF q = <<>> THEN <<>> ELSE Append(Reverse(Tail(q)), Head(q))

\* a request for the profile page arrives
ProfileLoaderRequest ==
    /\ ppc = "idle"
    /\ ppc' = "load.auth"
    /\ UNCHANGED <<form, profiles, response, pcalls>>
    /\ UNCHANGED <<classifierVars, loaderVars, truncateVars, qrVars>>

\* line 449: authenticate.admin(request)
ProfileLoaderAuthenticate ==
    /\ ppc = "load.auth"
    /\ \/ /\ ppc' = "load.find"
          /\ pcalls' = Append(pcalls, AuthOk)
          /\ UNCHANGED response
       \/ /\ ppc' = "raised"
          /\ pcalls' = Append(pcalls, AuthFailed)
          /\ response' = [outcome |-> "throw", error |-> AuthError]
    /\ UNCHANGED <<form, profiles>>
    /\ UNCHANGED <<classifierVars, loaderVars, truncateVars, qrVars>>

\* lines 450-453: findMany, newest first; the returned object is sent as 200
ProfileFindMany ==
    /\ ppc = "load.find"
    /\ pcalls' = Append(pcalls, [op |-> "profile.findMany"])
    /\ response' = [outcome |-> "return", status |-> 200,
                    profiles |-> Reverse(profiles)]
    /\ ppc' = "done"
    /\ UNCHANGED <<form, profiles>>
    /\ UNCHANGED <<classifierVars, loaderVars, truncateVars, qrVars>>

\* the orders page's response has been sent
Respond ==
    /\ pc \in {"done", "raised"}
    /\ pc' = "idle"
    /\ json' = NoJson
    /\ thrown' = NotThrown
    /\ statusCounts' = ZeroCounts
    /\ processed' = 0
    /\ result' = NoResult
    /\ calls' = <<>>
    /\ UNCHANGED <<classifierVars, profileVars, truncateVars, qrVars>>

\* the response has been sent; the request's data is gone, the store stays
ProfileRespond ==
    /\ ppc \in {"done", "raised"}
    /\ ppc' = "idle"
    /\ form' = NoForm
    /\ response' = NoResponse
    /\ pcalls' = <<>>
    /\ UNCHANGED profiles
    /\ UNCHANGED <<classifierVars, loaderVars, truncateVars, qrVars>>

Init ==
    /\ ClassifierInit
    /\ LoaderIdle
    /\ ProfileIdle
    /\ TruncateIdle
    /\ QRIdle

Next ==
    \/ Request
    \/ Authenticate
    \/ Fetch
    \/ CheckErrors
    \/ CountOrder(SampleOrders, MaxOrders)
    \/ Finish
    \/ Catch

Spec == Init /\ [][Next]_vars

\* the aggregation of lines 94-158 alone, on an error-free page
FetchedPage ==
    /\ pc = "count"
    /\ json = [hasErrors |-> FALSE, errors |-> <<>>, hasData |-> TRUE]
    /\ thrown = NotThrown
    /\ statusCounts = ZeroCounts
    /\ processed = 0
    /\ result = NoResult
    /\ calls = <<AuthOk, OrdersQuery>>

AggregateInit ==
    /\ ClassifierInit
    /\ FetchedPage
    /\ ProfileIdle
    /\ TruncateIdle
    /\ QRIdle

AggregateNext ==
    \/ CountOrder(SampleOrders, MaxAggOrders)
    \/ Finish

SpecAggregate == AggregateInit /\ [][AggregateNext]_vars

LongNext ==
    \/ CountOrder(TwoKinds, MaxLongOrders)
    \/ Finish

SpecLong == AggregateInit /\ [][LongNext]_vars

\* the profile route
ProfileNext ==
    \/ ProfileSubmit
    \/ ProfileAuthenticate
    \/ ProfileAct
    \/ ProfileLoaderRequest
    \/ ProfileLoaderAuthenticate
    \/ ProfileFindMany
    \/ ProfileRespond

SpecProfile == Init /\ [][ProfileNext]_vars

\* the QR-code route
SpecQR == Init /\ [][QRNext]_vars

\* all routes, one request at a time; the orders and QR-code routes leave
\* the profile store alone and are followed from the empty store only
NoRequest == pc = "idle" /\ ppc = "idle" /\ qpc = "idle"
EmptyStore == profiles = <<>>

RoutesNext ==
    \/ NoRequest /\ EmptyStore /\ Request
    \/ Authenticate
    \/ Fetch
    \/ CheckErrors
    \/ CountOrder(SampleOrders, MaxOrders)
    \/ Finish
    \/ Catch
    \/ Respond
    \/ NoRequest /\ ProfileSubmit
    \/ ProfileAuthenticate
    \/ ProfileAct
    \/ NoRequest /\ ProfileLoaderRequest
    \/ ProfileLoaderAuthenticate
    \/ ProfileFindMany
    \/ ProfileRespond
    \/ NoRequest /\ EmptyStore /\ QRLoaderRequest
    \/ QRLoaderAuthenticate
    \/ QRGetQRCodes
    \/ NoRequest /\ EmptyStore /\ QRActionRequest
    \/ QRAuthenticate
    \/ QRCreateCall
    \/ QRCreateResponse
    \/ QRReadProduct
    \/ QRUpdateCall
    \/ QRUpdateResponse
    \/ QRRespond

SpecRoutes == Init /\ [][RoutesNext]_vars

\* the truncation helper on its own
SpecTruncate == Init /\ [][TruncateNext]_vars

\* ----------------------------------------------- classifier specification
ReceiveOrder ==
    /\ order = NoOrder
    /\ order' \in OrderSet
    /\ UNCHANGED classified
    /\ UNCHANGED <<loaderVars, profileVars, truncateVars, qrVars>>

ClassifyOrder ==
    /\ order # NoOrder
    /\ classified = NotClassified
    /\ classified' = Classify(order)
    /\ UNCHANGED order
    /\ UNCHANGED <<loaderVars, profileVars, truncateVars, qrVars>>

ClassifierNext == ReceiveOrder \/ ClassifyOrder

SpecClassifier == Init /\ [][ClassifierNext]_vars

\* ================================================================ claims

\* C1: the classifier returns the effective status (displayStatus if
\* present, else status) of the first fulfillment, in list order, whose
\* effective status is DELIVERED, FULFILLED or IN_TRANSIT; NOT_DELIVERED when
\* the list is empty, absent, or holds no such fulfillment; it always yields
\* one of the four labels.
C1_FirstMatchWins ==
    (order # NoOrder /\ classified # NotClassified) =>
        LET fs == IF order.hasFulfillments THEN order.fulfillments ELSE <<>>
            eff(i) == IF fs[i].displayStatus # Null THEN fs[i].displayStatus
                      ELSE fs[i].status
            matches == {i \in 1..Len(fs) : eff(i) \in {"DELIVERED", "FULFILLED", "IN_TRANSIT"}}
        IN  /\ classified.status \in Labels
            /\ IF matches = {} THEN classified.status = "NOT_DELIVERED"
               ELSE \E i \in matches :
                        /\ \A k \in matches : i <= k
                        /\ classified.status = eff(i)

\* C1 witness: [IN_TRANSIT, FULFILLED] was classified IN_TRANSIT
C1_Witness ==
    /\ order = [hasFulfillments |-> TRUE,
                fulfillments |-> << [displayStatus |-> "IN_TRANSIT", status |-> Null],
                                    [displayStatus |-> "FULFILLED", status |-> Null] >>]
    /\ classified.status = "IN_TRANSIT"

\* the case of C2: two fulfillments, the first with an absent or unrecognized
\* effective status, the second FULFILLED through the fallback status field
C2_Case ==
    /\ order # NoOrder
    /\ classified # NotClassified
    /\ order.hasFulfillments
    /\ Len(order.fulfillments) = 2
    /\ order.fulfillments[1].displayStatus \in {Null, "SUCCESS"}
    /\ order.fulfillments[1].displayStatus = Null
            => order.fulfillments[1].status \in {Null, "SUCCESS"}
    /\ order.fulfillments[2].displayStatus = Null
    /\ order.fulfillments[2].status = "FULFILLED"

\* C2 as stated: on [absent-or-unrecognized, FULFILLED] the classifier
\* returns FULFILLED and the secondary scan is what returns it.
C2_ViaSecondaryScan ==
    C2_Case => (classified.status = "FULFILLED" /\ classified.via = "secondary")

\* C2 amended: on [absent-or-unrecognized, FULFILLED] the classifier returns
\* FULFILLED and the primary scan is what returns it, on reaching the second
\* fulfillment; the secondary scan is not what produces the result.
C2_ViaPrimaryScan ==
    C2_Case => (classified.status = "FULFILLED" /\ classified.via = "primary")

\* C2 witness: such an order has been classified
C2_Witness ==
    /\ C2_Case
    /\ order.fulfillments[1] = [displayStatus |-> Null, status |-> "SUCCESS"]
    /\ classified = [status |-> "FULFILLED", via |-> "primary"]

\* C3: in a normal result the four counters add up to totalOrders, the number
\* of orders fetched; while the loop runs they add up to the number of orders
\* counted so far.
C3_CountsSumToTotal ==
    /\ pc = "count" =>
           statusCounts.DELIVERED + statusCounts.NOT_DELIVERED
               + statusCounts.FULFILLED + statusCounts.IN_TRANSIT = processed
    /\ (result.outcome = "return" /\ result.value.error = Null) =>
           /\ result.value.totalOrders = processed
           /\ result.value.statusCounts.DELIVERED + result.value.statusCounts.NOT_DELIVERED
                  + result.value.statusCounts.FULFILLED + result.value.statusCounts.IN_TRANSIT
                  = result.value.totalOrders

\* C3 witness: a normal result for a page of three orders in three buckets
C3_Witness ==
    /\ result.outcome = "return"
    /\ result.value.error = Null
    /\ result.value.totalOrders = 3
    /\ result.value.statusCounts.DELIVERED = 1
    /\ result.value.statusCounts.FULFILLED = 1
    /\ result.value.statusCounts.NOT_DELIVERED = 1

\* C4: each of the six percentages of a normal result is count / total * 100
\* rounded half-up to two decimals (round-half-up of count * 10000 / total,
\* in hundredths) when totalOrders > 0, is 0 when totalOrders = 0, and lies
\* between 0 and 100; notDelivered is taken over NOT_DELIVERED + FULFILLED +
\* IN_TRANSIT.
C4_PercentagesRoundHalfUp ==
    (result.outcome = "return" /\ result.value.error = Null) =>
        LET v == result.value
            t == v.totalOrders
            c == v.statusCounts
            notDeliveredCount == c.NOT_DELIVERED + c.FULFILLED + c.IN_TRANSIT
            halfUp(n) == IF t > 0 THEN (20000 * n + t) \div (2 * t) ELSE 0
        IN  /\ \A label \in Labels :
                   /\ v.percentages.byStatus[label] = halfUp(c[label])
                   /\ v.percentages.byStatus[label] \in 0..10000
            /\ v.percentages.delivered = halfUp(c.DELIVERED)
            /\ v.percentages.notDelivered = halfUp(notDeliveredCount)
            /\ v.percentages.delivered \in 0..10000
            /\ v.percentages.notDelivered \in 0..10000

\* C5 as stated: for a page of 1 to 250 orders the four byStatus percentages
\* add up to 100.00 give or take 0.01, and delivered + notDelivered likewise.
C5_SumsWithinOneHundredth ==
    (result.outcome = "return" /\ result.value.error = Null
        /\ result.value.totalOrders \in 1..250) =>
        LET p == result.value.percentages
            byStatusSum == p.byStatus.DELIVERED + p.byStatus.NOT_DELIVERED
                               + p.byStatus.FULFILLED + p.byStatus.IN_TRANSIT
        IN  /\ byStatusSum \in 9999..10001
            /\ p.delivered + p.notDelivered \in 9999..10001

\* C5 amended: for a page of 1 to 250 orders the four byStatus percentages
\* add up to 100.00 give or take 0.02, and delivered + notDelivered adds up to
\* 100.00 give or take 0.01.
C5_SumsWithinTwoHundredths ==
    (result.outcome = "return" /\ result.value.error = Null
        /\ result.value.totalOrders \in 1..250) =>
        LET p == result.value.percentages
            byStatusSum == p.byStatus.DELIVERED + p.byStatus.NOT_DELIVERED
                               + p.byStatus.FULFILLED + p.byStatus.IN_TRANSIT
        IN  /\ byStatusSum \in 9998..10002
            /\ p.delivered + p.notDelivered \in 9999..10001

\* C5 witness: 32 orders counted 1, 1, 1 and 29 give 3.13 + 3.13 + 3.13 + 90.63
C5_Witness ==
    /\ result.outcome = "return"
    /\ result.value.error = Null
    /\ result.value.totalOrders = 32
    /\ result.value.statusCounts.NOT_DELIVERED = 29
    /\ result.value.percentages.byStatus =
           [DELIVERED |-> 313, NOT_DELIVERED |-> 9063, FULFILLED |-> 313, IN_TRANSIT |-> 313]
    /\ result.value.percentages.delivered + result.value.percentages.notDelivered = 10001

\* the response carries an error list with a permission message in it
C6_Case ==
    /\ json # NoJson
    /\ json.hasErrors
    /\ \E i \in 1..Len(json.errors) :
           /\ json.errors[i].hasMessage
           /\ \/ Includes(json.errors[i].message, <<"Access", "denied">>)
              \/ Includes(json.errors[i].message, <<"not", "approved">>)
              \/ Includes(json.errors[i].message, <<"Order", "object">>)

\* C6: when the response carries an error list with a message containing
\* "Access denied", "not approved" or "Order object", the loader returns
\* exactly {error: "access_denied", message: remediation text}; it does not
\* raise, counts nothing and reports no counts or percentages, whatever data
\* the response also holds.
C6_AccessDeniedResult ==
    C6_Case =>
        /\ pc \in {"check", "done"}
        /\ processed = 0
        /\ pc = "done" =>
               /\ result.outcome = "return"
               /\ DOMAIN result.value = {"error", "message"}
               /\ result.value.error = "access_denied"
               /\ result.value.message = RemediationText

\* C6 witness: access_denied was returned for a response that also had data
\* and whose permission message is the second of two
C6_Witness ==
    /\ C6_Case
    /\ pc = "done"
    /\ json.hasData
    /\ Len(json.errors) = 2
    /\ json.errors[1] = [hasMessage |-> TRUE, message |-> <<"Throttled">>]
    /\ json.errors[2] = [hasMessage |-> TRUE, message |-> <<"Invalid", "Order", "object">>]
    /\ result.value.error = "access_denied"

\* the thrown error's message contains one of the permission texts
C7_Matches ==
    /\ thrown.hasMessage
    /\ \/ Includes(thrown.message, <<"Access", "denied">>)
       \/ Includes(thrown.message, <<"not", "approved">>)
       \/ Includes(thrown.message, <<"Order", "object">>)

\* C7: an error thrown by the fetch whose message contains none of the three
\* permission texts is raised again, the same error, and nothing is returned;
\* one whose message contains any of them gives the access_denied result and
\* is not raised.
C7_RethrowUnchanged ==
    thrown # NotThrown =>
        IF C7_Matches
        THEN /\ pc \in {"catch", "done"}
             /\ pc = "done" =>
                    result = [outcome |-> "return", value |-> AccessDeniedResult]
        ELSE /\ pc \in {"catch", "raised"}
             /\ pc = "raised" => result = [outcome |-> "throw", error |-> thrown]

\* C7 witness: a "Throttled" error was raised again
C7_Witness ==
    /\ thrown = [hasMessage |-> TRUE, message |-> <<"Throttled">>]
    /\ pc = "raised"
    /\ result = [outcome |-> "throw", error |-> thrown]

\* C8: a response that carries a non-empty error list none of whose messages
\* is a permission message makes the loader raise; it does not return a
\* normal result with error = null.
C8_OtherErrorsPropagate ==
    (/\ json # NoJson
     /\ json.hasErrors
     /\ Len(json.errors) > 0
     /\ ~C6_Case
     /\ pc \in {"done", "raised"}) => result.outcome = "throw"

C10_StoreGrowsWellFormed ==
    /\ [](\A i \in 1..Len(profiles) :
              /\ profiles[i].name # <<>>
              /\ Head(profiles[i].name) # " "
              /\ profiles[i].name[Len(profiles[i].name)] # " "
              /\ profiles[i].age \in Nat)
    /\ [][LET accepted == /\ ppc = "validate"
                          /\ response'.outcome = "return"
                          /\ response'.status = 302
          IN  /\ Len(profiles') >= Len(profiles)
              /\ SubSeq(profiles', 1, Len(profiles)) = profiles
              /\ Len(profiles') = Len(profiles) + (IF accepted THEN 1 ELSE 0)
        ]_vars

\* C10 witness: a second record was added after the first, which is intact
C10_Witness ==
    /\ ppc = "done"
    /\ response.outcome = "return"
    /\ response.status = 302
    /\ Len(profiles) = 2
    /\ profiles[1] = [name |-> <<"a">>, age |-> 1]
    /\ profiles[2] = [name |-> <<"a", "a">>, age |-> 11]

\* C11: truncate returns the text unchanged when it is no longer than the
\* maximum (50 when none is given), otherwise its first `length` characters
\* followed by "...", length + 3 characters in all; an empty or absent text
\* gives the empty string.
C11_Truncate ==
    tResult # NotTruncated =>
        LET limit == IF tLength.given THEN tLength.value ELSE 50
            text == tText.text
            out == tResult.text
        IN  IF ~tText.present \/ Len(text) = 0 THEN out = <<>>
            ELSE IF Len(text) <= limit THEN out = text
            ELSE /\ Len(out) = limit + 3
                 /\ \A i \in 1..limit : out[i] = text[i]
                 /\ \A i \in (limit + 1)..(limit + 3) : out[i] = "."

\* C11 witness: truncate("abcdefghij", 5) returned "abcde..."
C11_Witness ==
    /\ tText = [present |-> TRUE,
                text |-> <<"a", "b", "c", "d", "e", "f", "g", "h", "i", "j">>]
    /\ tLength = [given |-> TRUE, value |-> 5]
    /\ tResult = [text |-> <<"a", "b", "c", "d", "e", ".", ".", ".">>]

\* C12: in every handler nothing is called, read or written before the
\* request has been authenticated, and after a failed authentication nothing
\* is called, read or written at all; the profile store changes only in a
\* request that has been authenticated.
C12_AuthenticateFirst ==
    /\ [](\A log \in {calls, pcalls, qcalls} :
              /\ \A i \in 1..Len(log) :
                     log[i].op # "authenticate" =>
                         \E j \in 1..(i - 1) :
                             log[j].op = "authenticate" /\ log[j].ok
              /\ (\E j \in 1..Len(log) : log[j].op = "authenticate" /\ ~log[j].ok) =>
                     \A i \in 1..Len(log) : log[i].op = "authenticate")
    /\ [][profiles' # profiles =>
              \E j \in 1..Len(pcalls) : pcalls[j].op = "authenticate" /\ pcalls[j].ok
        ]_vars

\* C12 witness: the profile action authenticated, then created a record
C12_Witness ==
    /\ ppc = "done"
    /\ Len(pcalls) = 2
    /\ pcalls[1] = [op |-> "authenticate", ok |-> TRUE]
    /\ pcalls[2].op = "profile.create"
    /\ Len(profiles) = 1

\* C13: the variant update is issued only after the product creation has
\* completed and been decoded, with the product id and the first variant id
\* of that response; each of the two calls is issued at most once; when the
\* creation throws, or its response has no data, no product or no variant,
\* the variant update is not issued and the action raises.
C13_UpdateAfterCreate ==
    LET creates == {i \in 1..Len(qcalls) :
                       qcalls[i].op = "graphql" /\ qcalls[i].name = "populateProduct"}
        updates == {i \in 1..Len(qcalls) :
                       /\ qcalls[i].op = "graphql"
                       /\ qcalls[i].name = "shopifyReactRouterTemplateUpdateVariant"}
        decoded == qjson # NoCreateResponse
        usable == decoded /\ qjson.hasData /\ qjson.hasProduct /\ Len(qjson.variants) >= 1
    IN  /\ Cardinality(creates) <= 1
        /\ Cardinality(updates) <= 1
        /\ \A u \in updates :
               /\ \E c \in creates : c < u
               /\ usable
               /\ qcalls[u].productId = qjson.id
               /\ qcalls[u].variantId = qjson.variants[1]
        /\ (decoded /\ ~usable) =>
               /\ updates = {}
               /\ qpc \in {"read", "raised"}
               /\ qpc = "raised" => qresult.outcome = "throw"
        /\ (creates # {} /\ ~decoded /\ qpc # "create.await") =>
               /\ updates = {}
               /\ qpc = "raised"
               /\ qresult.outcome = "throw"

\* C13 witness: both calls were made, the update on the first of two variants
C13_Witness ==
    /\ qpc = "done"
    /\ Len(qcalls) = 3
    /\ qjson.variants = <<"gid://Variant/2", "gid://Variant/1">>
    /\ qcalls[2].name = "populateProduct"
    /\ qcalls[3].name = "shopifyReactRouterTemplateUpdateVariant"
    /\ qcalls[3].productId = qjson.id
    /\ qcalls[3].variantId = "gid://Variant/2"

====
